---------------------------- MODULE Spec2Model ----------------------------
(***************************************************************************)
(* A model of export-chatgpt.js (the ES2020 revision, src/unnamed/part_000) *)
(* : the DOM-to-Markdown converter and the export driver around it.        *)
(*                                                                         *)
(* A JavaScript string is a sequence of one-character strings; a DOM node  *)
(* is a record.  A text node is [type |-> "text", data |-> s]; an element  *)
(* is [type |-> "elem", tag |-> t, attrs |-> a, children |-> c] where a is *)
(* a function from the names of the attributes that are present to their   *)
(* values.  A node of a tree is addressed by its path (the child indices   *)
(* from the root), so parentElement, nextSibling and the ancestor walks of *)
(* the code are computed from (root, path).                                *)
(***************************************************************************)
EXTENDS Integers, Sequences, FiniteSets, TLC

VARIABLES
    pc,        \* position of the running script / of the call under study
    heap,      \* DOM objects by reference: the caller's tree and the clones
    arg,       \* the argument record of the call under study
    ret,       \* the value the call returned
    idx,       \* number of elements the running loop has visited
    markdown   \* exportChatToMarkdown: the document built so far

vars == <<pc, heap, arg, ret, idx, markdown>>

-----------------------------------------------------------------------------
(* Strings *)

\* No DOM object / no value (null, undefined).
Null == [type |-> "null"]

\* What /\s/ and String.prototype.trim treat as white space (the ASCII part).
IsSpace(c) == c \in {" ", "\t", "\n", "\r", "\f"}

\* A LineTerminator: where ^ matches under the m flag.
IsLineTerminator(c) == c \in {"\n", "\r"}

\* The backtick character (a string literal cannot hold it).
Backtick == "U+0060"

\* The decimal digits, digit d at index d + 1.
DigitChars == <<"0", "1", "2", "3", "4", "5", "6", "7", "8", "9">>

IsDigit(c) == \E d \in 1..10 : DigitChars[d] = c

\* s.substring(0, n)
Substring0(s, n) == SubSeq(s, 1, IF Len(s) < n THEN Len(s) ELSE n)

\* The concatenation of F(1), ..., F(n).
ConcatMap(n, F(_)) ==
    LET f[lo \in 1..(n + 1), hi \in 0..n] ==
            IF hi < lo THEN <<>>
            ELSE IF lo = hi THEN F(lo)
            ELSE f[lo, (lo + hi) \div 2] \o f[((lo + hi) \div 2) + 1, hi]
    IN  f[1, n]

\* The concatenation of a sequence of strings: parts.join('').
Concat(parts) == ConcatMap(Len(parts), LAMBDA i : parts[i])

\* parts.join(sep)
Join(parts, sep) ==
    ConcatMap(Len(parts), LAMBDA i : IF i = 1 THEN parts[i] ELSE sep \o parts[i])

\* s.replaceAll(c, r) for a one-character pattern c: also s.replace(/c/g, r).
ReplaceAllChar(s, c, r) ==
    ConcatMap(Len(s), LAMBDA i : IF s[i] = c THEN r ELSE <<s[i]>>)

\* s.trim()
TrimStart(s) ==
    LET lead == {i \in 1..Len(s) : \A j \in 1..i : IsSpace(s[j])}
    IN  SubSeq(s, Cardinality(lead) + 1, Len(s))

TrimEnd(s) ==
    LET trail == {i \in 1..Len(s) : \A j \in i..Len(s) : IsSpace(s[j])}
    IN  SubSeq(s, 1, Len(s) - Cardinality(trail))

Trim(s) == TrimEnd(TrimStart(s))

\* /^\s*$/.test(s)
IsBlankString(s) == \A i \in 1..Len(s) : IsSpace(s[i])

\* s.split('\n'): the pieces between the newlines, at least one piece.
Split(s, c) ==
    LET cuts  == {i \in 1..Len(s) : s[i] = c}
        n     == Cardinality(cuts)
        \* position of the k-th separator; 0 before the first, Len+1 past the last
        cut[k \in 0..(n + 1)] ==
            IF k = 0 THEN 0
            ELSE IF k = n + 1 THEN Len(s) + 1
            ELSE CHOOSE i \in cuts : Cardinality({j \in cuts : j < i}) = k - 1
    IN  [k \in 1..(n + 1) |-> SubSeq(s, cut[k - 1] + 1, cut[k] - 1)]

\* The number of positions of s that hold c.
Count(s, c) == Cardinality({i \in 1..Len(s) : s[i] = c})

\* Does s start with / end with / contain the string t
StartsWith(s, t) == Len(s) >= Len(t) /\ SubSeq(s, 1, Len(t)) = t
EndsWith(s, t) == Len(s) >= Len(t) /\ SubSeq(s, Len(s) - Len(t) + 1, Len(s)) = t
OccursAt(s, t, i) == i >= 1 /\ i + Len(t) - 1 <= Len(s) /\ SubSeq(s, i, i + Len(t) - 1) = t
Includes(s, t) == \E i \in 1..(Len(s) + 1) : OccursAt(s, t, i)

-----------------------------------------------------------------------------
(* The DOM *)

Text(s) == [type |-> "text", data |-> s]
Elem(t, a, c) == [type |-> "elem", tag |-> t, attrs |-> a, children |-> c]
NoAttrs == [x \in {} |-> <<>>]
El(t, c) == Elem(t, NoAttrs, c)

IsElement(n) == n.type = "elem"
IsTextNode(n) == n.type = "text"
IsTag(n, tags) == IsElement(n) /\ n.tag \in tags

ChildNodes(n) == IF IsElement(n) THEN n.children ELSE <<>>

\* node.getAttribute(name): HasAttribute is "the result is not null".
HasAttribute(n, name) == IsElement(n) /\ name \in DOMAIN n.attrs
GetAttribute(n, name) == n.attrs[name]

\* node.textContent
RECURSIVE TextContent(_)
TextContent(n) ==
    IF IsTextNode(n) THEN n.data
    ELSE ConcatMap(Len(n.children), LAMBDA i : TextContent(n.children[i]))

\* The node of the tree `root` at path p.
RECURSIVE NodeAt(_, _)
NodeAt(root, p) ==
    IF p = <<>> THEN root ELSE NodeAt(root.children[Head(p)], Tail(p))

\* The paths of the descendants of n (n itself excluded), in document order.
RECURSIVE DescendantPaths(_)
DescendantPaths(n) ==
    ConcatMap(Len(ChildNodes(n)),
              LAMBDA i : <<<<i>>>> \o
                  LET sub == DescendantPaths(n.children[i])
                  IN  [k \in 1..Len(sub) |-> <<i>> \o sub[k]])

\* n.querySelectorAll(sel), sel given as a predicate on a node: the matching
\* descendants' paths (relative to n) in document order.
QuerySelectorAll(n, Matches(_)) ==
    SelectSeq(DescendantPaths(n), LAMBDA p : Matches(NodeAt(n, p)))

\* n.querySelector(sel): is there a match, and the first match.
HasMatch(n, Matches(_)) == QuerySelectorAll(n, Matches) # <<>>
FirstMatch(n, Matches(_)) == Head(QuerySelectorAll(n, Matches))

\* node.parentElement, as a path; the root of a tree (a detached clone) has none.
HasParent(p) == p # <<>>
ParentPath(p) == SubSeq(p, 1, Len(p) - 1)

\* node.nextSibling is not null.
HasNextSibling(root, p) ==
    HasParent(p) /\ p[Len(p)] < Len(NodeAt(root, ParentPath(p)).children)

\* The tree n without the node at path p: what el.remove() leaves.
RECURSIVE RemoveAt(_, _)
RemoveAt(n, p) ==
    LET i == Head(p)
        c == n.children
    IN  IF Len(p) = 1
        THEN [n EXCEPT !.children = SubSeq(c, 1, i - 1) \o SubSeq(c, i + 1, Len(c))]
        ELSE [n EXCEPT !.children[i] = RemoveAt(c[i], Tail(p))]

-----------------------------------------------------------------------------
(* convertTableToMarkdown *)

IsCell(n) == IsTag(n, {"td", "th"})
IsRow(n) == IsTag(n, {"tr"})
IsTHead(n) == IsTag(n, {"thead"})
IsTBody(n) == IsTag(n, {"tbody"})

\* A getCellText that trims and leaves the pipes alone.
getCellText_NoEscape(cell) == Trim(TextContent(cell))

\* cell.textContent?.trim().replaceAll('|', '\\|') ?? ''
getCellText(cell) == ReplaceAllChar(Trim(TextContent(cell)), "|", <<"\\", "|">>)

\* [...row.querySelectorAll('td, th')].map(getCellText)
getCellsFromRow(row) ==
    LET cells == QuerySelectorAll(row, IsCell)
    IN  [i \in 1..Len(cells) |-> getCellText(NodeAt(row, cells[i]))]

\* `| ${cells.join(' | ')} |`
formatTableRow(cells) == <<"|", " ">> \o Join(cells, <<" ", "|", " ">>) \o <<" ", "|">>

\* An addHeaderRow that pushes the header and no separator.
addHeaderRow_NoSeparator(cells) == <<formatTableRow(cells)>>

\* The two rows addHeaderRow pushes: the header and the '---' separator.
addHeaderRow(cells) ==
    <<formatTableRow(cells),
      formatTableRow([i \in 1..Len(cells) |-> <<"-", "-", "-">>])>>

\* The rows pushed by the "Process header" block.
TableHeaderRows(tableNode) ==
    IF HasMatch(tableNode, IsTHead)
    THEN LET thead == NodeAt(tableNode, FirstMatch(tableNode, IsTHead))
         IN  IF HasMatch(thead, IsRow)
             THEN addHeaderRow(getCellsFromRow(NodeAt(thead, FirstMatch(thead, IsRow))))
             ELSE <<>>
    ELSE <<>>

\* The rows pushed by the "Process body" block.  Without a tbody every tr of
\* the table is visited and isFirstRow (initially !thead) makes the first row
\* that has cells a header row.
TableBodyRows(tableNode) ==
    IF HasMatch(tableNode, IsTBody)
    THEN LET tbody == NodeAt(tableNode, FirstMatch(tableNode, IsTBody))
             trs   == QuerySelectorAll(tbody, IsRow)
         IN  ConcatMap(Len(trs), LAMBDA i :
                 LET cells == getCellsFromRow(NodeAt(tbody, trs[i]))
                 IN  IF Len(cells) > 0 THEN <<formatTableRow(cells)>> ELSE <<>>)
    ELSE LET trs == QuerySelectorAll(tableNode, IsRow)
             cellsOf(i) == getCellsFromRow(NodeAt(tableNode, trs[i]))
             isFirstRow(i) == /\ ~HasMatch(tableNode, IsTHead)
                              /\ \A j \in 1..(i - 1) : Len(cellsOf(j)) = 0
         IN  ConcatMap(Len(trs), LAMBDA i :
                 IF Len(cellsOf(i)) > 0
                 THEN IF isFirstRow(i) THEN addHeaderRow(cellsOf(i))
                                       ELSE <<formatTableRow(cellsOf(i))>>
                 ELSE <<>>)

\* rows.join('\n') + '\n\n'
convertTableToMarkdown(tableNode) ==
    Join(TableHeaderRows(tableNode) \o TableBodyRows(tableNode), <<"\n">>)
        \o <<"\n", "\n">>

-----------------------------------------------------------------------------
(* escapeMarkdown and collapseWhitespace *)

\* Position i of s is where ^ matches under the m flag.
LineStart(s, i) == i = 1 \/ IsLineTerminator(s[i - 1])

\* s with a backslash put before every position i for which At(i) holds.
EscapeWhere(s, At(_)) ==
    ConcatMap(Len(s), LAMBDA i : IF At(i) THEN <<"\\", s[i]>> ELSE <<s[i]>>)

\* .replace(/\\/g, '\\\\'), .replace(/\*/g, '\\*'), and the like
EscapeChar(s, c) == EscapeWhere(s, LAMBDA i : s[i] = c)

\* .replace(/^-/gm, '\\-') and .replace(/^>/gm, '\\>')
EscapeLeading(s, c) == EscapeWhere(s, LAMBDA i : s[i] = c /\ LineStart(s, i))

\* .replace(/^\+ /gm, '\\+ ')
EscapeLeadingPlus(s) ==
    EscapeWhere(s, LAMBDA i : /\ s[i] = "+" /\ LineStart(s, i)
                              /\ i < Len(s) /\ s[i + 1] = " ")

\* .replace(/^(=+)/gm, '\\$1'): one backslash before the run.
EscapeLeadingEquals(s) == EscapeLeading(s, "=")

\* .replace(/^(#{1,6}) /gm, '\\$1 '): a run of 1 to 6 '#' at a line start that
\* a space follows.
EscapeLeadingHashes(s) ==
    EscapeWhere(s, LAMBDA i :
        /\ s[i] = "#" /\ LineStart(s, i)
        /\ \E k \in 1..6 : /\ i + k <= Len(s)
                           /\ \A j \in i..(i + k - 1) : s[j] = "#"
                           /\ s[i + k] = " ")

\* .replace(/^(\d+)\. /gm, '$1\\. '): the dot after the digits that start a
\* line, when a space follows it.
EscapeOrderedMarker(s) ==
    EscapeWhere(s, LAMBDA j :
        /\ s[j] = "." /\ j < Len(s) /\ s[j + 1] = " "
        /\ \E i \in 1..(j - 1) : /\ LineStart(s, i)
                                 /\ \A k \in i..(j - 1) : IsDigit(s[k]))

\* An escapeMarkdown without the /^-/gm rule.
escapeMarkdown_NoDashRule(text) ==
    EscapeOrderedMarker(EscapeChar(EscapeLeading(EscapeChar(EscapeChar(EscapeChar(
        EscapeLeadingHashes(EscapeLeadingEquals(EscapeLeadingPlus(
            EscapeChar(EscapeChar(text, "\\"), "*")))),
        Backtick), "["), "]"), ">"), "_"))

\* escapeMarkdown(text): the twelve replacements in the order of the source.
escapeMarkdown(text) ==
    EscapeOrderedMarker(EscapeChar(EscapeLeading(EscapeChar(EscapeChar(EscapeChar(
        EscapeLeadingHashes(EscapeLeadingEquals(EscapeLeadingPlus(EscapeLeading(
            EscapeChar(EscapeChar(text, "\\"), "*"), "-")))),
        Backtick), "["), "]"), ">"), "_"))

\* .replace(/\n{3,}/g, '\n\n'): of a run of newlines the first two are kept,
\* the others dropped (a run of one or two is left as it is).
CollapseNewlines(s) ==
    ConcatMap(Len(s), LAMBDA i :
        IF s[i] = "\n" /\ i > 2 /\ s[i - 1] = "\n" /\ s[i - 2] = "\n"
        THEN <<>> ELSE <<s[i]>>)

\* .replace(/[ \t]+/g, ' ')
CollapseBlanks(s) ==
    ConcatMap(Len(s), LAMBDA i :
        IF s[i] \in {" ", "\t"}
        THEN IF i > 1 /\ s[i - 1] \in {" ", "\t"} THEN <<>> ELSE <<" ">>
        ELSE <<s[i]>>)

\* collapseWhitespace(text, preserveNewlines)
collapseWhitespace(text, preserveNewlines) ==
    IF preserveNewlines
    THEN CollapseNewlines(CollapseBlanks(text))
    ELSE ConcatMap(Len(text), LAMBDA i :
            IF text[i] \in {" ", "\t", "\r", "\n"}
            THEN IF i > 1 /\ text[i - 1] \in {" ", "\t", "\r", "\n"} THEN <<>> ELSE <<" ">>
            ELSE <<text[i]>>)

-----------------------------------------------------------------------------
(* processNode *)

CheckboxStr == <<"c", "h", "e", "c", "k", "b", "o", "x">>
LanguagePrefix == <<"l", "a", "n", "g", "u", "a", "g", "e", "-">>

\* The selectors of the source, as predicates on a node.
IsBlankExempt(n) == IsTag(n, {"img", "hr", "br", "table"})
IsCheckbox(n) ==
    IsTag(n, {"input"}) /\ HasAttribute(n, "type") /\ GetAttribute(n, "type") = CheckboxStr
IsCodeElement(n) == IsTag(n, {"code"})
IsUnwanted(n) == IsTag(n, {"script", "style", "svg", "button"})

\* isBlank(node): an element none of whose descendants is an img, hr, br or
\* table and whose text is white space only.  querySelector looks at the
\* descendants of the node, never at the node itself.
isBlank(node) ==
    /\ IsElement(node)
    /\ ~HasMatch(node, IsBlankExempt)
    /\ IsBlankString(TextContent(node))

\* isInsideListItem(node): some ancestor is an li.
isInsideListItem(root, p) ==
    \E k \in 0..(Len(p) - 1) : IsTag(NodeAt(root, SubSeq(p, 1, k)), {"li"})

\* The decimal digits of a natural number: `${n}`.
RECURSIVE NumberToString(_)
NumberToString(n) ==
    IF n < 10 THEN <<DigitChars[n + 1]>>
    ELSE NumberToString(n \div 10) \o <<DigitChars[(n % 10) + 1]>>

\* Number(s) for a string of decimal digits.
RECURSIVE StringToNumber(_)
StringToNumber(s) ==
    IF s = <<>> THEN 0
    ELSE 10 * StringToNumber(SubSeq(s, 1, Len(s) - 1))
         + (CHOOSE d \in 0..9 : DigitChars[d + 1] = s[Len(s)])

\* '#'.repeat(level) and the like
Repeat(c, n) == [i \in 1..n |-> c]

\* parseInt(tag[1]) for a heading tag.
HeadingLevel(tag) ==
    CASE tag = "h1" -> 1 [] tag = "h2" -> 2 [] tag = "h3" -> 3
      [] tag = "h4" -> 4 [] tag = "h5" -> 5 [] tag = "h6" -> 6

\* className.match(/language-(\S+)/)?.[1] ?? '': the run of non-space
\* characters after the first "language-" that has one.
FenceLanguage(className) ==
    LET hits == {i \in 1..Len(className) :
                    /\ OccursAt(className, LanguagePrefix, i)
                    /\ i + Len(LanguagePrefix) <= Len(className)
                    /\ ~IsSpace(className[i + Len(LanguagePrefix)])}
    IN  IF hits = {} THEN <<>>
        ELSE LET from == (CHOOSE i \in hits : \A j \in hits : i <= j) + Len(LanguagePrefix)
                 run  == {k \in from..Len(className) :
                             \A j \in from..k : ~IsSpace(className[j])}
             IN  SubSeq(className, from, from + Cardinality(run) - 1)

\* ` "${title.replaceAll('"', '\\"')}"` when the attribute is set and not
\* empty, '' otherwise.
TitlePart(node) ==
    IF HasAttribute(node, "title") /\ GetAttribute(node, "title") # <<>>
    THEN <<" ", "\"">> \o ReplaceAllChar(GetAttribute(node, "title"), "\"", <<"\\", "\"">>)
         \o <<"\"">>
    ELSE <<>>

\* lines.map(line => '  ' + line).join('\n')
IndentLines(lines) ==
    Join([i \in 1..Len(lines) |-> <<" ", " ">> \o lines[i]], <<"\n">>)

\* .replace(/^\n+/, '').replace(/\n+$/, '\n') of the li case.
TrimListItemNewlines(s) ==
    LET lead  == Cardinality({i \in 1..Len(s) : \A j \in 1..i : s[j] = "\n"})
        t     == SubSeq(s, lead + 1, Len(s))
        trail == Cardinality({i \in 1..Len(t) : \A j \in i..Len(t) : t[j] = "\n"})
    IN  IF trail = 0 THEN t ELSE SubSeq(t, 1, Len(t) - trail) \o <<"\n">>

\* The li case's indentation of the continuation lines.
IndentContinuation(content) ==
    LET lines == Split(content, "\n")
    IN  IF Len(lines) > 1
        THEN lines[1] \o <<"\n">> \o IndentLines(Tail(lines))
        ELSE content

\* liClone: node.cloneNode(true) with its first checkbox removed.  The clone
\* is detached, so it is the root of its own tree.
ListItemClone(node) ==
    IF HasMatch(node, IsCheckbox) THEN RemoveAt(node, FirstMatch(node, IsCheckbox))
    ELSE node

\* The marker of the older revision's li case: the start attribute is not
\* looked at.
ListItemPrefix_IgnoreStart(root, p) ==
    IF HasParent(p) /\ IsTag(NodeAt(root, ParentPath(p)), {"ol"})
    THEN NumberToString(Cardinality({i \in 1..(p[Len(p)] - 1) :
             IsElement(NodeAt(root, ParentPath(p)).children[i])}) + 1) \o <<".", " ">>
    ELSE <<"-", " ">>

\* A task list prefix that does not look at the checkbox's state.
TaskListPrefix_IgnoreChecked(node) ==
    IF HasMatch(node, IsCheckbox) THEN <<"[", " ", "]", " ">> ELSE <<>>

\* The task list prefix of the li case.
TaskListPrefix(node) ==
    IF HasMatch(node, IsCheckbox)
    THEN IF HasAttribute(NodeAt(node, FirstMatch(node, IsCheckbox)), "checked")
         THEN <<"[", "x", "]", " ">> ELSE <<"[", " ", "]", " ">>
    ELSE <<>>

\* [...parent.children].indexOf(node): the position among the element
\* children of the parent, from 0.
ElementIndex(root, p) ==
    Cardinality({i \in 1..(p[Len(p)] - 1) :
                    IsElement(NodeAt(root, ParentPath(p)).children[i])})

\* The marker of the li case.
ListItemPrefix(root, p) ==
    IF HasParent(p) /\ IsTag(NodeAt(root, ParentPath(p)), {"ol"})
    THEN LET parent == NodeAt(root, ParentPath(p))
             index  == ElementIndex(root, p)
         IN  NumberToString(
                 IF HasAttribute(parent, "start") /\ GetAttribute(parent, "start") # <<>>
                 THEN StringToNumber(GetAttribute(parent, "start")) + index
                 ELSE index + 1) \o <<".", " ">>
    ELSE <<"-", " ">>

\* The inline code span of the code case.
InlineCode(childContent) ==
    IF childContent = <<>> THEN <<>>
    ELSE LET inlineCode == ConcatMap(Len(childContent), LAMBDA i :
                 IF childContent[i] = "\n"
                 THEN IF i > 1 /\ childContent[i - 1] = "\r" THEN <<>> ELSE <<" ">>
                 ELSE IF childContent[i] = "\r" THEN <<" ">>
                 ELSE <<childContent[i]>>)
             delimiter  == IF Includes(inlineCode, <<Backtick>>)
                           THEN <<Backtick, Backtick>> ELSE <<Backtick>>
             extraSpace == IF \/ inlineCode[1] \in {Backtick, " "}
                              \/ inlineCode[Len(inlineCode)] \in {Backtick, " "}
                           THEN <<" ">> ELSE <<>>
         IN  delimiter \o extraSpace \o inlineCode \o extraSpace \o delimiter

\* The pre case of the older revision: no language, the rendered children.
CodeFence_NoLanguage(node, childContent) ==
    <<Backtick, Backtick, Backtick, "\n">> \o Trim(childContent)
        \o <<"\n", Backtick, Backtick, Backtick, "\n", "\n">>

\* The fenced block of the pre case.
CodeFence(node, childContent) ==
    LET hasCode   == HasMatch(node, IsCodeElement)
        codeElem  == NodeAt(node, FirstMatch(node, IsCodeElement))
        className == IF hasCode /\ HasAttribute(codeElem, "class")
                     THEN GetAttribute(codeElem, "class") ELSE <<>>
        code      == IF hasCode THEN TextContent(codeElem) ELSE childContent
    IN  <<Backtick, Backtick, Backtick>> \o FenceLanguage(className) \o <<"\n">>
        \o Trim(code) \o <<"\n", Backtick, Backtick, Backtick, "\n", "\n">>

\* The blank-node guard at the head of processNode.
SkipsBlank(node) == isBlank(node)

\* processNode(node, {isCode, noEscape}) for the node at path p of the tree
\* root.
RECURSIVE processNode(_, _, _, _)
processNode(root, p, isCode, noEscape) ==
    LET node == NodeAt(root, p)
        tag  == node.tag
        isCodeContext == isCode \/ tag = "code" \/ tag = "pre"
        childContent ==
            ConcatMap(Len(node.children), LAMBDA i :
                processNode(root, p \o <<i>>, isCodeContext /\ tag # "pre", noEscape))
        wrapIfAny(open, close) ==
            IF Trim(childContent) # <<>> THEN open \o childContent \o close ELSE <<>>
    IN  IF SkipsBlank(node) THEN <<>>
        ELSE IF IsTextNode(node)
        THEN LET text == IF isCode THEN node.data ELSE collapseWhitespace(node.data, FALSE)
             IN  IF isCode \/ noEscape THEN text ELSE escapeMarkdown(text)
        ELSE CASE tag \in {"h1", "h2", "h3", "h4", "h5", "h6"} ->
                    Repeat("#", HeadingLevel(tag)) \o <<" ">> \o Trim(childContent)
                        \o <<"\n", "\n">>
               [] tag = "p" ->
                    IF isInsideListItem(root, p) THEN Trim(childContent)
                    ELSE Trim(childContent) \o <<"\n", "\n">>
               [] tag \in {"strong", "b"} -> wrapIfAny(<<"*", "*">>, <<"*", "*">>)
               [] tag \in {"em", "i"} -> wrapIfAny(<<"*">>, <<"*">>)
               [] tag \in {"s", "del", "strike"} -> wrapIfAny(<<"~", "~">>, <<"~", "~">>)
               [] tag = "sup" ->
                    wrapIfAny(<<"<", "s", "u", "p", ">">>, <<"<", "/", "s", "u", "p", ">">>)
               [] tag = "sub" ->
                    wrapIfAny(<<"<", "s", "u", "b", ">">>, <<"<", "/", "s", "u", "b", ">">>)
               [] tag = "code" ->
                    IF HasParent(p) /\ IsTag(NodeAt(root, ParentPath(p)), {"pre"})
                    THEN childContent
                    ELSE InlineCode(childContent)
               [] tag = "pre" -> CodeFence(node, childContent)
               [] tag \in {"ul", "ol"} ->
                    IF Trim(childContent) = <<>> THEN <<>>
                    ELSE IF isInsideListItem(root, p)
                    THEN <<"\n">> \o IndentLines(Split(Trim(childContent), "\n")) \o <<"\n">>
                    ELSE <<"\n">> \o childContent \o <<"\n">>
               [] tag = "li" ->
                    LET liClone   == ListItemClone(node)
                        liContent == ConcatMap(Len(liClone.children), LAMBDA i :
                                         processNode(liClone, <<i>>, isCode, noEscape))
                        content   == IndentContinuation(TrimListItemNewlines(liContent))
                    IN  ListItemPrefix(root, p) \o TaskListPrefix(node) \o content
                        \o (IF HasNextSibling(root, p) /\ ~EndsWith(content, <<"\n">>)
                            THEN <<"\n">> ELSE <<>>)
               [] tag = "blockquote" ->
                    LET quoteLines == Split(Trim(childContent), "\n")
                    IN  Join([i \in 1..Len(quoteLines) |-> <<">", " ">> \o quoteLines[i]],
                             <<"\n">>) \o <<"\n", "\n">>
               [] tag = "hr" -> <<"-", "-", "-", "\n", "\n">>
               [] tag = "a" ->
                    IF ~HasAttribute(node, "href") \/ GetAttribute(node, "href") = <<>>
                    THEN childContent
                    ELSE <<"[">> \o childContent \o <<"]", "(">> \o GetAttribute(node, "href")
                         \o TitlePart(node) \o <<")">>
               [] tag = "img" ->
                    IF ~HasAttribute(node, "src") \/ GetAttribute(node, "src") = <<>>
                    THEN <<>>
                    ELSE <<"!", "[">>
                         \o (IF HasAttribute(node, "alt") THEN GetAttribute(node, "alt") ELSE <<>>)
                         \o <<"]", "(">> \o GetAttribute(node, "src") \o TitlePart(node)
                         \o <<")">>
               [] tag = "br" -> <<"\n">>
               [] tag = "table" -> convertTableToMarkdown(node)
               [] OTHER -> childContent

\* The isCode option with which the node at path q is reached when
\* processNode is called on its ancestor at path p with the option isCode:
\* an element hands isCodeContext && tag !== 'pre' to its children, a list
\* item hands on the isCode it was given.
RECURSIVE PassedIsCode(_, _, _, _)
PassedIsCode(root, p, q, isCode) ==
    IF Len(p) >= Len(q) THEN isCode
    ELSE LET tag == NodeAt(root, p).tag
         IN  PassedIsCode(root, SubSeq(q, 1, Len(p) + 1), q,
                 IF tag = "li" THEN isCode
                 ELSE (isCode \/ tag = "code" \/ tag = "pre") /\ tag # "pre")

\* The unwanted elements stripped from n: what
\* querySelectorAll('script, style, svg, button').forEach(el => el.remove())
\* leaves of the tree under n.
RECURSIVE RemoveUnwanted(_)
RemoveUnwanted(n) ==
    IF IsElement(n)
    THEN LET kept == SelectSeq(n.children, LAMBDA c : ~IsUnwanted(c))
         IN  [n EXCEPT !.children = [i \in 1..Len(kept) |-> RemoveUnwanted(kept[i])]]
    ELSE n

\* htmlToMarkdown(element, options) for an element: the clone is detached, so
\* it is converted as the root of its own tree.
htmlToMarkdown(element, noEscape) ==
    Trim(processNode(RemoveUnwanted(element), <<>>, FALSE, noEscape))

\* .replace(/\n[ \t]+/g, '\n'): the blanks right after a newline go.
RemoveBlanksAfterNewline(s) ==
    ConcatMap(Len(s), LAMBDA i :
        IF /\ s[i] \in {" ", "\t"}
           /\ \E j \in 1..(i - 1) : s[j] = "\n" /\ \A k \in (j + 1)..i : s[k] \in {" ", "\t"}
        THEN <<>> ELSE <<s[i]>>)

\* .replace(/[ \t]+\n/g, '\n'): the blanks right before a newline go.
RemoveBlanksBeforeNewline(s) ==
    ConcatMap(Len(s), LAMBDA i :
        IF /\ s[i] \in {" ", "\t"}
           /\ \E j \in (i + 1)..Len(s) : s[j] = "\n" /\ \A k \in i..(j - 1) : s[k] \in {" ", "\t"}
        THEN <<>> ELSE <<s[i]>>)

\* The text extractTextContent makes of the stripped clone.
CleanText(clone) ==
    Trim(CollapseNewlines(RemoveBlanksBeforeNewline(RemoveBlanksAfterNewline(
        CollapseBlanks(TextContent(clone))))))

\* extractTextContent(element) for an element.
extractTextContent(element) == CleanText(RemoveUnwanted(element))

-----------------------------------------------------------------------------
(* exportChatToMarkdown *)

\* The tokens of a class attribute.
HasClass(n, token) ==
    /\ HasAttribute(n, "class")
    /\ \E i \in 1..Len(Split(GetAttribute(n, "class"), " ")) :
          Split(GetAttribute(n, "class"), " ")[i] = token

TurnTestIdPrefix ==
    <<"c", "o", "n", "v", "e", "r", "s", "a", "t", "i", "o", "n", "-", "t", "u", "r", "n">>
MarkdownClass == <<"m", "a", "r", "k", "d", "o", "w", "n">>
PreWrapClass ==
    <<"w", "h", "i", "t", "e", "s", "p", "a", "c", "e", "-", "p", "r", "e", "-",
      "w", "r", "a", "p">>
UserRole == <<"u", "s", "e", "r">>
AssistantRole == <<"a", "s", "s", "i", "s", "t", "a", "n", "t">>
TitleSuffix == <<" ", "|", " ", "C", "h", "a", "t", "G", "P", "T">>
DefaultTitle ==
    <<"C", "h", "a", "t", "G", "P", "T", " ", "C", "o", "n", "v", "e", "r", "s", "a", "t",
      "i", "o", "n">>

\* The selectors of exportChatToMarkdown and extractMarkdownContent.
IsTitle(n) == IsTag(n, {"title"})
IsTurn(n) ==
    /\ IsTag(n, {"article"}) /\ HasAttribute(n, "data-testid")
    /\ StartsWith(GetAttribute(n, "data-testid"), TurnTestIdPrefix)
IsMessage(n) == HasAttribute(n, "data-message-author-role")
IsUserContent(n) ==
    IsElement(n) /\ (HasClass(n, PreWrapClass) \/ HasAttribute(n, "data-multiline"))
IsMarkdownDiv(n) == IsElement(n) /\ HasClass(n, MarkdownClass)

\* s.replace(pat, rep) for a string pattern: the first occurrence only.
ReplaceFirst(s, pat, rep) ==
    LET hits == {i \in 1..Len(s) : OccursAt(s, pat, i)}
    IN  IF hits = {} THEN s
        ELSE LET i == CHOOSE h \in hits : \A k \in hits : h <= k
             IN  SubSeq(s, 1, i - 1) \o rep \o SubSeq(s, i + Len(pat), Len(s))

\* const conversationTitle = titleElement?.textContent.replace(' | ChatGPT', '')
\*     ?? 'ChatGPT Conversation'
ConversationTitle(document) ==
    IF HasMatch(document, IsTitle)
    THEN ReplaceFirst(TextContent(NodeAt(document, FirstMatch(document, IsTitle))),
                      TitleSuffix, <<>>)
    ELSE DefaultTitle

\* document.querySelectorAll('article[data-testid^="conversation-turn"]')
Turns(document) ==
    LET ps == QuerySelectorAll(document, IsTurn)
    IN  [i \in 1..Len(ps) |-> NodeAt(document, ps[i])]

\* extractMarkdownContent(element)
extractMarkdownContent(element) ==
    IF HasMatch(element, IsMarkdownDiv)
    THEN htmlToMarkdown(NodeAt(element, FirstMatch(element, IsMarkdownDiv)), TRUE)
    ELSE htmlToMarkdown(element, TRUE)

\* cleanupMarkdown(markdown)
cleanupMarkdown(md) == Trim(CollapseNewlines(md))

\* The head of the document: title, export time, separator.
Preamble(title, localeTime) ==
    <<"#", " ">> \o title \o <<"\n", "\n">>
    \o <<"*", "E", "x", "p", "o", "r", "t", "e", "d", " ", "o", "n", " ">> \o localeTime
    \o <<"*", "\n", "\n">>
    \o <<"-", "-", "-", "\n", "\n">>

\* Does the turn have a message container: turn.querySelector('[data-message-author-role]')
HasMessageDiv(turn) == HasMatch(turn, IsMessage)
MessageDiv(turn) == NodeAt(turn, FirstMatch(turn, IsMessage))
ActualRole(turn) == GetAttribute(MessageDiv(turn), "data-message-author-role")

\* The content extracted from a turn that has a message container.
TurnContent(turn) ==
    LET messageDiv == MessageDiv(turn)
    IN  IF ActualRole(turn) = UserRole
        THEN IF HasMatch(messageDiv, IsUserContent)
             THEN extractTextContent(NodeAt(messageDiv, FirstMatch(messageDiv, IsUserContent)))
             ELSE extractTextContent(messageDiv)
        ELSE IF ActualRole(turn) = AssistantRole
        THEN extractMarkdownContent(messageDiv)
        ELSE extractTextContent(messageDiv)

\* The heading of a role: '## User', '## Assistant' or '## <role>'.
RoleHeading(role) ==
    <<"#", "#", " ">> \o
    (IF role = UserRole THEN <<"U", "s", "e", "r">>
     ELSE IF role = AssistantRole THEN <<"A", "s", "s", "i", "s", "t", "a", "n", "t">>
     ELSE role)

\* A forEach callback that does not skip a turn whose content is empty.
TurnOutput_KeepEmpty(turn) ==
    IF ~HasMessageDiv(turn) THEN <<>>
    ELSE RoleHeading(ActualRole(turn)) \o <<"\n">> \o TurnContent(turn)
         \o <<"\n", "-", "-", "-", "\n", "\n">>

\* What one run of the forEach callback appends to markdown.
TurnOutput(turn) ==
    IF ~HasMessageDiv(turn) THEN <<>>
    ELSE IF TurnContent(turn) = <<>> THEN <<>>
    ELSE RoleHeading(ActualRole(turn)) \o <<"\n">> \o TurnContent(turn)
         \o <<"\n", "-", "-", "-", "\n", "\n">>

\* The most characters of the title a file name takes.
MaxTitleLength == 50

AlnumChars ==
    {"a", "b", "c", "d", "e", "f", "g", "h", "i", "j", "k", "l", "m",
     "n", "o", "p", "q", "r", "s", "t", "u", "v", "w", "x", "y", "z",
     "A", "B", "C", "D", "E", "F", "G", "H", "I", "J", "K", "L", "M",
     "N", "O", "P", "Q", "R", "S", "T", "U", "V", "W", "X", "Y", "Z",
     "0", "1", "2", "3", "4", "5", "6", "7", "8", "9"}

\* .replace(/[^a-z0-9]/gi, '_')
ReplaceNonAlnum(s) == [i \in 1..Len(s) |-> IF s[i] \in AlnumChars THEN s[i] ELSE "_"]

\* .replace(/_+/g, '_')
CollapseUnderscores(s) ==
    ConcatMap(Len(s), LAMBDA i :
        IF s[i] = "_" /\ i > 1 /\ s[i - 1] = "_" THEN <<>> ELSE <<s[i]>>)

\* A safeTitle whose runs of underscores stay.
SafeTitle_NoCollapse(title) == Substring0(ReplaceNonAlnum(title), MaxTitleLength)

\* const safeTitle = conversationTitle.replace(...).replace(...).substring(0, 50)
SafeTitle(title) == Substring0(CollapseUnderscores(ReplaceNonAlnum(title)), MaxTitleLength)

\* `chatgpt_${safeTitle}_${Date.now()}.md`
Filename(title, now) ==
    <<"c", "h", "a", "t", "g", "p", "t", "_">> \o SafeTitle(title) \o <<"_">>
    \o NumberToString(now) \o <<".", "m", "d">>

-----------------------------------------------------------------------------
(* Tables given to convertTableToMarkdown *)

\* Bounds of the table inputs.
MaxCols == 2
MaxRows == 2

\* The raw text of cell i of a row of the given pattern: plain, or with a pipe
\* and backslashes inside and white space around.
RawCellText(pat, i) ==
    IF pat = "plain" THEN <<"c", DigitChars[i + 1]>>
    ELSE <<" ", "\\", "|", DigitChars[i + 1], "\\", "\n">>

\* A row as the list of its cells' raw texts.
RowPool ==
    {[i \in 1..k |-> RawCellText(pat, i)] : k \in 0..MaxCols, pat \in {"plain", "pipe"}}

RowSeqs(S, n) == UNION {[1..k -> S] : k \in 0..n}

MkRow(cells) == El("tr", [i \in 1..Len(cells) |-> El("td", <<Text(cells[i])>>)])
MkRows(rows) == [i \in 1..Len(rows) |-> MkRow(rows[i])]

\* The table element for a parameter record t: a thead when t.hasHead, the
\* body rows inside a tbody when t.hasBody and directly under the table
\* otherwise.
MkTable(t) ==
    El("table",
       (IF t.hasHead THEN <<El("thead", MkRows(t.head))>> ELSE <<>>)
       \o (IF t.hasBody THEN <<El("tbody", MkRows(t.body))>> ELSE MkRows(t.body)))

\* The table of the table round-trip example: header A, B and rows 1, 2 / 3, 4.
ExampleTable ==
    [hasHead |-> TRUE, hasBody |-> TRUE,
     head |-> << << <<"A">>, <<"B">> >> >>,
     body |-> << << <<"1">>, <<"2">> >>, << <<"3">>, <<"4">> >> >>]

TableInputs ==
    {ExampleTable} \cup
    {[hasHead |-> FALSE, hasBody |-> hb, head |-> <<>>, body |-> b] :
        hb \in BOOLEAN, b \in RowSeqs(RowPool, MaxRows)} \cup
    {[hasHead |-> TRUE, hasBody |-> hb, head |-> h, body |-> b] :
        hb \in BOOLEAN,
        h \in {<<>>} \cup {<<r>> : r \in RowPool}
                     \cup {<<r, <<RawCellText("plain", 9)>> >> : r \in RowPool},
        b \in RowSeqs(RowPool, MaxRows)}

NoCall == [fn |-> "none"]

InitTable ==
    /\ pc = "call"
    /\ \E t \in TableInputs :
          /\ arg = [fn |-> "convertTableToMarkdown", table |-> t]
          /\ heap = [caller |-> MkTable(t)]
    /\ ret = <<>>
    /\ idx = 0
    /\ markdown = <<>>

\* The call convertTableToMarkdown(tableNode) on the caller's table.
ConvertTable ==
    /\ pc = "call"
    /\ arg.fn = "convertTableToMarkdown"
    /\ ret' = convertTableToMarkdown(heap.caller)
    /\ pc' = "done"
    /\ UNCHANGED <<heap, arg, idx, markdown>>

NextTable == ConvertTable

SpecTable == InitTable /\ [][NextTable]_vars

-----------------------------------------------------------------------------
(* Claims about convertTableToMarkdown (SpecTable) *)

TableReturned == pc = "done" /\ arg.fn = "convertTableToMarkdown"

\* "| c1 | ... | cn |" written cell by cell: a pipe, then " ci |" per cell.
ExpectedRowLine(cells) ==
    <<"|">> \o ConcatMap(Len(cells), LAMBDA i : <<" ">> \o cells[i] \o <<" ", "|">>)

\* A row of n '---' cells.
ExpectedSeparator(n) == ExpectedRowLine([i \in 1..n |-> <<"-", "-", "-">>])

\* The text a cell shows, for the raw texts of RowPool and of ExampleTable:
\* no surrounding white space, a backslash put before each pipe.
ExpectedCellText(raw) ==
    LET core == SelectSeq(raw, LAMBDA c : ~IsSpace(c))
    IN  ConcatMap(Len(core), LAMBDA i :
            IF core[i] = "|" THEN <<"\\", "|">> ELSE <<core[i]>>)

ExpectedCells(row) == [i \in 1..Len(row) |-> ExpectedCellText(row[i])]

\* Each line followed by one newline.
Lines(ls) == ConcatMap(Len(ls), LAMBDA i : ls[i] \o <<"\n">>)

HeadBodyTable(t) ==
    t.hasHead /\ t.hasBody /\ Len(t.head) >= 1 /\ Len(t.head[1]) >= 1

\* C1: for a table with a head section whose first row has n >= 1 cells and a
\* body section, the result is the header row, a separator of n '---' cells and
\* one row per body row that has cells, in order, each line ended by one
\* newline and the whole by one more; the example table gives the example text.
C1_TableLayout ==
    (TableReturned /\ HeadBodyTable(arg.table)) =>
        LET t    == arg.table
            body == SelectSeq(t.body, LAMBDA r : Len(r) > 0)
        IN  /\ ret = Lines(<<ExpectedRowLine(ExpectedCells(t.head[1])),
                             ExpectedSeparator(Len(t.head[1]))>>
                           \o [i \in 1..Len(body) |-> ExpectedRowLine(ExpectedCells(body[i]))])
                     \o <<"\n">>
            /\ (t = ExampleTable =>
                  ret = <<"|", " ", "A", " ", "|", " ", "B", " ", "|", "\n",
                          "|", " ", "-", "-", "-", " ", "|", " ", "-", "-", "-", " ", "|", "\n",
                          "|", " ", "1", " ", "|", " ", "2", " ", "|", "\n",
                          "|", " ", "3", " ", "|", " ", "4", " ", "|", "\n", "\n">>)

\* A head-and-body table was converted whose body has a cell-less row before a
\* row with cells: the cell-less row is the one skipped.
C1_Witness ==
    /\ TableReturned /\ HeadBodyTable(arg.table)
    /\ Len(arg.table.body) = 2
    /\ Len(arg.table.body[1]) = 0 /\ Len(arg.table.body[2]) = MaxCols
    /\ Len(arg.table.head[1]) = MaxCols

\* The rows of the result: its lines, the closing "\n\n" taken off.
EmittedLines(out) ==
    LET body == SubSeq(out, 1, Len(out) - 2)
    IN  IF body = <<>> THEN <<>> ELSE Split(body, "\n")

\* The pipes of a line that no backslash precedes.
UnescapedPipes(line) ==
    Cardinality({i \in 1..Len(line) : line[i] = "|" /\ (i = 1 \/ line[i - 1] # "\\")})

\* The rows of the table's markup: those of the head and those of the body.
SourceRows(t) == {t.head[i] : i \in 1..Len(t.head)} \cup {t.body[i] : i \in 1..Len(t.body)}

\* Line is the rendering of source row r, or the separator under it, with its
\* cells trimmed and pipe-escaped, and has Len(r) + 1 unescaped pipes.
RendersRow(line, r) ==
    /\ \/ line = ExpectedRowLine(ExpectedCells(r))
       \/ line = ExpectedSeparator(Len(r))
    /\ UnescapedPipes(line) = Len(r) + 1

\* The statement of C2 as written: every emitted row, of any number n of
\* cells, shows the trimmed, pipe-escaped cell texts and has n + 1 unescaped
\* pipes.
C2_AsWritten ==
    TableReturned =>
        \A k \in 1..Len(EmittedLines(ret)) :
            \E r \in SourceRows(arg.table) : RendersRow(EmittedLines(ret)[k], r)

\* The row a head row without cells is emitted as.
CellLessRowLine == <<"|", " ", " ", "|">>

\* C2 (amended): every emitted row of n >= 1 cells shows each cell's flattened
\* text trimmed with every '|' replaced by '\|' and has exactly n + 1 pipes
\* that no backslash precedes; the only other rows are the '|  |' pair emitted
\* for a head row that has no cells.
C2_PipeEscaping ==
    TableReturned =>
        \A k \in 1..Len(EmittedLines(ret)) :
            \/ \E r \in SourceRows(arg.table) :
                  Len(r) >= 1 /\ RendersRow(EmittedLines(ret)[k], r)
            \/ /\ EmittedLines(ret)[k] = CellLessRowLine
               /\ k <= 2
               /\ arg.table.hasHead /\ Len(arg.table.head) >= 1
               /\ Len(arg.table.head[1]) = 0

\* A row whose cells hold pipes, backslashes and surrounding white space was
\* emitted from the body of a table.
C2_Witness ==
    /\ TableReturned
    /\ \E i \in 1..Len(arg.table.body) :
          /\ arg.table.body[i] = [j \in 1..MaxCols |-> RawCellText("pipe", j)]
          /\ \E k \in 1..Len(EmittedLines(ret)) :
                EmittedLines(ret)[k] = ExpectedRowLine(ExpectedCells(arg.table.body[i]))

\* C12: every table for which at least one row is emitted has a separator:
\* the second line of the result is a row of '---' cells, as many as the
\* first line has cells, whether the table has a head section, only a body
\* section or bare rows.  (The '|  |' pair of a head row without cells counts
\* as a header with its separator here.)
C12_SeparatorLine ==
    (TableReturned /\ Len(EmittedLines(ret)) >= 1) =>
        /\ Len(EmittedLines(ret)) >= 2
        /\ \/ \E r \in SourceRows(arg.table) :
                 /\ Len(r) >= 1
                 /\ EmittedLines(ret)[1] = ExpectedRowLine(ExpectedCells(r))
                 /\ EmittedLines(ret)[2] = ExpectedSeparator(Len(r))
           \/ /\ EmittedLines(ret)[1] = CellLessRowLine
              /\ EmittedLines(ret)[2] = CellLessRowLine

-----------------------------------------------------------------------------
(* Trees given to processNode *)

\* Where the node under study sits in the tree: alone, in a paragraph after
\* some text, in an item of an unordered list, or inside nested containers.
Contexts == {"root", "p", "li", "div"}

InContext(ctx, n) ==
    CASE ctx = "root" -> n
      [] ctx = "p"    -> El("p", <<Text(<<"x">>), n>>)
      [] ctx = "li"   -> El("ul", <<El("li", <<n, Text(<<"x">>)>>)>>)
      [] ctx = "div"  -> El("div", <<El("span", <<n>>)>>)

ContextPath(ctx) ==
    CASE ctx = "root" -> <<>>
      [] ctx = "p"    -> <<2>>
      [] ctx = "li"   -> <<1, 1>>
      [] ctx = "div"  -> <<1, 1>>

\* An attribute record from the (name, value) pairs whose value is given:
\* Absent marks an attribute that the element does not carry.
Absent == <<"absent">>
Attrs(pairs) ==
    LET present == {i \in 1..Len(pairs) : pairs[i][2] # Absent}
    IN  [name \in {pairs[i][1] : i \in present} |->
            pairs[CHOOSE i \in present : pairs[i][1] = name][2]]

\* Images: with, with an empty and without src; with and without alt and
\* title.
ImgInputs ==
    {[kind |-> "img", src |-> s, alt |-> a, title |-> t] :
        s \in {Absent, <<>>, <<"u", ".", "p", "n", "g">>},
        a \in {Absent, <<"a", "l", "t">>},
        t \in {Absent, <<"t">>}}

MkImg(d) == Elem("img", Attrs(<< <<"src", d.src>>, <<"alt", d.alt>>, <<"title", d.title>> >>), <<>>)

HrInputs == {[kind |-> "hr"]}

\* Text nodes: the raw text and, written out by hand, the same text with each
\* run of white space turned into one space.
TextInputs ==
    {[kind |-> "text", data |-> t[1], norm |-> t[2]] : t \in {
        << <<"-", " ", "n", "o", "t", " ", "a", " ", "l", "i", "s", "t">>,
           <<"-", " ", "n", "o", "t", " ", "a", " ", "l", "i", "s", "t">> >>,
        << <<"-">>, <<"-">> >>,
        << <<"-", "*", "_", Backtick, "\\">>, <<"-", "*", "_", Backtick, "\\">> >>,
        << <<"-", " ", "\t", "x", "\n", "-", "y">>, <<"-", " ", "x", " ", "-", "y">> >>,
        << <<"-", "-", "-">>, <<"-", "-", "-">> >>,
        << <<" ", "-", " ", "x">>, <<" ", "-", " ", "x">> >>,
        << <<"a", "-", "b">>, <<"a", "-", "b">> >>,
        << <<"1", ".", " ", "x">>, <<"1", ".", " ", "x">> >> }}

DoneStr == <<"d", "o", "n", "e">>

\* Task list items: an li of a ul holding a checkbox (checked or not, bare or
\* wrapped in a span, before or after the text) and the text 'done' (bare or
\* in a paragraph); the li is the last child of the list, or is followed by
\* another item or by a white-space text node.
TaskInputs ==
    {[kind |-> "task", checked |-> c, wrapped |-> w, boxFirst |-> f, inP |-> ip, next |-> n] :
        c \in BOOLEAN, w \in BOOLEAN, f \in BOOLEAN, ip \in BOOLEAN,
        n \in {"none", "li", "text"}}

MkTaskItem(d) ==
    LET input == Elem("input",
                      IF d.checked THEN [type |-> CheckboxStr, checked |-> <<>>]
                      ELSE [type |-> CheckboxStr], <<>>)
        box   == IF d.wrapped THEN El("span", <<input>>) ELSE input
        body  == IF d.inP THEN El("p", <<Text(DoneStr)>>) ELSE Text(DoneStr)
    IN  El("li", IF d.boxFirst THEN <<box, body>> ELSE <<body, box>>)

MkTaskList(d) ==
    El("ul", <<MkTaskItem(d)>> \o
             (CASE d.next = "none" -> <<>>
                [] d.next = "li"   -> <<El("li", <<Text(<<"x">>)>>)>>
                [] d.next = "text" -> <<Text(<<"\n">>)>>))

\* Class attributes of a code element, each with the language token it names.
ClassPool ==
    {[class |-> Absent, lang |-> <<>>],
     [class |-> LanguagePrefix \o <<"p", "y", "t", "h", "o", "n">>,
      lang  |-> <<"p", "y", "t", "h", "o", "n">>],
     [class |-> <<"h", "l", "j", "s", " ">> \o LanguagePrefix \o <<"c", "+", "+", " ", "x">>,
      lang  |-> <<"c", "+", "+">>],
     [class |-> LanguagePrefix, lang |-> <<>>],
     [class |-> LanguagePrefix \o <<" ", "x">>, lang |-> <<>>],
     [class |-> <<"h", "l", "j", "s">>, lang |-> <<>>]}

\* Texts of a code element, each with the same text trimmed.
CodeTextPool ==
    {[text |-> <<"p", "r", "i", "n", "t", "(", "1", ")">>,
      trimmed |-> <<"p", "r", "i", "n", "t", "(", "1", ")">>],
     [text |-> <<"\n", " ", "*", "a", "_", " ", " ", "b", "\n", "-", "\n", "\n">>,
      trimmed |-> <<"*", "a", "_", " ", " ", "b", "\n", "-">>],
     [text |-> <<>>, trimmed |-> <<>>],
     [text |-> <<" ", "\n">>, trimmed |-> <<>>]}

\* Preformatted blocks with a code element: the text directly in the code
\* element, or inside a span of it, or the code element after some text of
\* the pre itself, or before a line break.
PreInputs ==
    {[kind |-> "pre", class |-> c.class, lang |-> c.lang, text |-> t.text,
      trimmed |-> t.trimmed, shape |-> sh] :
        c \in ClassPool, t \in CodeTextPool, sh \in {"code", "span", "lead", "br"}}

MkPre(d) ==
    LET inner == IF d.shape = "span" THEN <<El("span", <<Text(d.text)>>)>>
                 ELSE <<Text(d.text)>>
        code  == Elem("code", Attrs(<< <<"class", d.class>> >>), inner)
    IN  El("pre", CASE d.shape = "lead" -> <<Text(<<"z">>), code>>
                    [] d.shape = "br"   -> <<code, El("br", <<>>)>>
                    [] OTHER            -> <<code>>)

\* Texts below a preformatted or inline-code element, none of them blank,
\* each with the same text trimmed (written out by hand).
RawTextPool ==
    {[text |-> <<"a", " ", " ", "*", "b", "*", "\n", " ", " ", "c", "_">>,
      trimmed |-> <<"a", " ", " ", "*", "b", "*", "\n", " ", " ", "c", "_">>],
     [text |-> <<" ", "#", " ", "x", "\n">>, trimmed |-> <<"#", " ", "x">>],
     [text |-> <<"p", "l", "a", "i", "n">>, trimmed |-> <<"p", "l", "a", "i", "n">>]}

\* A text node with a pre or code ancestor: directly under a pre, in a span
\* of a pre, directly under an inline code element, in an em of one, or in
\* the code element of a pre.
CodeTextInputs ==
    {[kind |-> "codetext", text |-> t.text, trimmed |-> t.trimmed, shape |-> sh] :
        t \in RawTextPool, sh \in {"pre", "prespan", "code", "codeem", "precode"}}

MkCodeText(d) ==
    CASE d.shape = "pre"     -> El("pre", <<Text(d.text)>>)
      [] d.shape = "prespan" -> El("pre", <<El("span", <<Text(d.text)>>)>>)
      [] d.shape = "code"    -> El("code", <<Text(d.text)>>)
      [] d.shape = "codeem"  -> El("code", <<El("em", <<Text(d.text)>>)>>)
      [] d.shape = "precode" -> El("pre", <<El("code", <<Text(d.text)>>)>>)

\* Bound of the lists: the most child nodes of a list.
MaxItems == 3

\* The child nodes of a list: a list item with text, one with a paragraph,
\* a blank list item, an element that is not a list item, and a white-space
\* text node.
ItemPool == {"li", "lip", "blank", "div", "ws"}

\* The start attributes of an ordered list, each with the number the first
\* item is to get (written out by hand).
StartPool ==
    {[start |-> Absent, first |-> 1],
     [start |-> <<>>, first |-> 1],
     [start |-> <<"0">>, first |-> 0],
     [start |-> <<"5">>, first |-> 5],
     [start |-> <<"1", "2">>, first |-> 12]}

ListInputs ==
    {[kind |-> "list", ordered |-> TRUE, start |-> st.start, first |-> st.first, items |-> it] :
        st \in StartPool, it \in RowSeqs(ItemPool, MaxItems)}
    \cup
    {[kind |-> "list", ordered |-> FALSE, start |-> st.start, first |-> st.first, items |-> it] :
        st \in {x \in StartPool : x.start \in {Absent, <<"5">>}},
        it \in RowSeqs(ItemPool, MaxItems)}

MkItem(shape) ==
    CASE shape = "li"    -> El("li", <<Text(<<"a">>)>>)
      [] shape = "lip"   -> El("li", <<El("p", <<Text(<<"b">>)>>)>>)
      [] shape = "blank" -> El("li", <<Text(<<" ">>)>>)
      [] shape = "div"   -> El("div", <<Text(<<"d">>)>>)
      [] shape = "ws"    -> Text(<<"\n">>)

MkList(d) ==
    Elem(IF d.ordered THEN "ol" ELSE "ul", Attrs(<< <<"start", d.start>> >>),
         [i \in 1..Len(d.items) |-> MkItem(d.items[i])])

\* Unordered lists with an item that holds an unordered list: the outer item
\* with or without text of its own before the inner list, the inner list
\* with the item 'x' or the items 'x' and 'y', the outer item last in its
\* list or followed by an item 'z'.
NestedInputs ==
    {[kind |-> "nested", outer |-> o, inner |-> i, next |-> n] :
        o \in {<<>>, <<"t">>}, i \in {<<"x">>, <<"x", "y">>}, n \in BOOLEAN}

MkNested(d) ==
    El("ul", <<El("li", (IF d.outer = <<>> THEN <<>> ELSE <<Text(d.outer)>>)
                        \o <<El("ul", [k \in 1..Len(d.inner) |->
                                          El("li", <<Text(<<d.inner[k]>>)>>)])>>)>>
             \o (IF d.next THEN <<El("li", <<Text(<<"z">>)>>)>> ELSE <<>>))

\* Inline code elements: the text of the code element and, written out by
\* hand, the same text with each line break turned into a space.
InlineInputs ==
    {[kind |-> "inline", text |-> t[1], inline |-> t[2]] : t \in {
        << <<"x">>, <<"x">> >>,
        << <<"a", "*", "b", "_">>, <<"a", "*", "b", "_">> >>,
        << <<"a", Backtick, "b">>, <<"a", Backtick, "b">> >>,
        << <<Backtick, "a">>, <<Backtick, "a">> >>,
        << <<"a", Backtick>>, <<"a", Backtick>> >>,
        << <<" ", "a">>, <<" ", "a">> >>,
        << <<"a", " ">>, <<"a", " ">> >>,
        << <<"a", "\n", "b">>, <<"a", " ", "b">> >>,
        << <<"a", "\r", "\n", "b", "\n">>, <<"a", " ", "b", " ">> >>,
        << <<"a", Backtick, Backtick, "b">>, <<"a", Backtick, Backtick, "b">> >>,
        << <<Backtick, Backtick>>, <<Backtick, Backtick>> >>,
        << <<"a", Backtick, "b", Backtick, Backtick, Backtick, "c">>,
           <<"a", Backtick, "b", Backtick, Backtick, Backtick, "c">> >> }}

MkInline(d) == El("code", <<Text(d.text)>>)

\* The element under study, built from its description.
MkNode(d) ==
    CASE d.kind = "img"  -> MkImg(d)
      [] d.kind = "hr"   -> El("hr", <<>>)
      [] d.kind = "text" -> Text(d.data)
      [] d.kind = "pre"  -> MkPre(d)
      [] d.kind = "codetext" -> MkCodeText(d)
      [] d.kind = "list" -> MkList(d)
      [] d.kind = "nested" -> MkNested(d)
      [] d.kind = "inline" -> MkInline(d)

\* The cases: a description and the context it is put in; a task item comes
\* with its own list.
NodeCases ==
    {<<d, ctx>> : d \in ImgInputs \cup HrInputs \cup TextInputs \cup PreInputs
                        \cup CodeTextInputs \cup InlineInputs,
                  ctx \in Contexts}
    \cup {<<d, "list">> : d \in TaskInputs}
    \cup {<<d, ctx>> : d \in ListInputs \cup NestedInputs, ctx \in {"root", "div"}}

CaseTree(d, ctx) == IF d.kind = "task" THEN MkTaskList(d) ELSE InContext(ctx, MkNode(d))
CasePath(d, ctx) == IF d.kind = "task" THEN <<1>> ELSE ContextPath(ctx)

InitNode ==
    /\ pc = "call"
    /\ \E c \in NodeCases, ic \in BOOLEAN, ne \in BOOLEAN :
          /\ arg = [fn |-> "processNode", input |-> c[1], ctx |-> c[2],
                    path |-> CasePath(c[1], c[2]), isCode |-> ic, noEscape |-> ne]
          /\ heap = [caller |-> CaseTree(c[1], c[2])]
    /\ ret = <<>>
    /\ idx = 0
    /\ markdown = <<>>

\* The call processNode(node, {isCode, noEscape}) on the node under study.
ProcessNodeCall ==
    /\ pc = "call"
    /\ arg.fn = "processNode"
    /\ ret' = processNode(heap.caller, arg.path, arg.isCode, arg.noEscape)
    /\ pc' = "done"
    /\ UNCHANGED <<heap, arg, idx, markdown>>

NextNode == ProcessNodeCall

SpecNode == InitNode /\ [][NextNode]_vars

NodeReturned == pc = "done" /\ arg.fn = "processNode"

-----------------------------------------------------------------------------
(* Claims about processNode (SpecNode) *)

\* C3: processNode of an image element with a non-empty src returns
\* '![alt](src)', alt being '' when absent and ' "title"' added inside the
\* parentheses when there is a title; without src it returns ''; wherever the
\* image is in the tree.
C3_Image ==
    (NodeReturned /\ arg.input.kind = "img") =>
        LET d == arg.input
        IN  IF d.src \in {Absent, <<>>} THEN ret = <<>>
            ELSE ret = <<"!", "[">> \o (IF d.alt = Absent THEN <<>> ELSE d.alt)
                       \o <<"]", "(">> \o d.src
                       \o (IF d.title = Absent THEN <<>>
                           ELSE <<" ", "\"">> \o d.title \o <<"\"">>)
                       \o <<")">>

\* C4: processNode of a horizontal rule returns "---\n\n", wherever the
\* element is in the tree and whatever isCode and noEscape are.
C4_HorizontalRule ==
    (NodeReturned /\ arg.input.kind = "hr") => ret = <<"-", "-", "-", "\n", "\n">>

TaskBox(checked) == IF checked THEN <<"[", "x", "]", " ">> ELSE <<"[", " ", "]", " ">>

\* The statement of C5 as written: the item renders as "- [x] done\n" or
\* "- [ ] done\n".
C5_AsWritten ==
    (NodeReturned /\ arg.input.kind = "task") =>
        ret = <<"-", " ">> \o TaskBox(arg.input.checked) \o DoneStr \o <<"\n">>

\* C5 (amended): a list item of an unordered list that holds a checkbox and
\* the text 'done' renders as "- [x] done" when the checkbox is checked and as
\* "- [ ] done" when it is not, followed by "\n" exactly when the item has a
\* following sibling node; nothing of the checkbox appears in the body.
C5_TaskList ==
    (NodeReturned /\ arg.input.kind = "task") =>
        ret = <<"-", " ">> \o TaskBox(arg.input.checked) \o DoneStr
              \o (IF arg.input.next = "none" THEN <<>> ELSE <<"\n">>)

\* A checked item with a wrapped checkbox after its text and a following item
\* was rendered.
C5_Witness ==
    /\ NodeReturned /\ arg.input.kind = "task"
    /\ arg.input.checked /\ arg.input.wrapped /\ ~arg.input.boxFirst
    /\ arg.input.next = "li"
    /\ ret = <<"-", " ", "[", "x", "]", " ", "d", "o", "n", "e", "\n">>

Fence == <<Backtick, Backtick, Backtick>>

\* The fenced block of language lang around the text t.
ExpectedFence(lang, t) == Fence \o lang \o <<"\n">> \o t \o <<"\n">> \o Fence \o <<"\n", "\n">>

\* The statement of C6 as written: every preformatted block with a code
\* element renders as the fence.
C6_AsWritten ==
    (NodeReturned /\ arg.input.kind = "pre") =>
        ret = ExpectedFence(arg.input.lang, arg.input.trimmed)

\* The pre of a case is not blank: its text is not white space only, or it
\* has an img, hr, br or table in it.
PreNotBlank(d) == d.shape \in {"lead", "br"} \/ d.trimmed # <<>>

\* C6 (amended): a preformatted block that contains a code element and is not
\* blank (its flattened text is not white space only, or it holds an img, hr,
\* br or table) renders as "```" + L +
\* "\n" + T + "\n```\n\n", T the code element's literal text trimmed and L the
\* token after 'language-' in its class, '' when there is none; a blank one
\* renders as ''.  Class 'language-python' with text 'print(1)' gives
\* "```python\nprint(1)\n```\n\n".
C6_CodeFence ==
    (NodeReturned /\ arg.input.kind = "pre") =>
        /\ ret = IF PreNotBlank(arg.input)
                 THEN ExpectedFence(arg.input.lang, arg.input.trimmed) ELSE <<>>
        /\ (/\ arg.input.class = LanguagePrefix \o <<"p", "y", "t", "h", "o", "n">>
            /\ arg.input.text = <<"p", "r", "i", "n", "t", "(", "1", ")">>)
           => ret = Fence \o <<"p", "y", "t", "h", "o", "n", "\n",
                               "p", "r", "i", "n", "t", "(", "1", ")", "\n">>
                    \o Fence \o <<"\n", "\n">>

\* A block was rendered whose code text has Markdown characters, repeated
\* spaces and newlines inside and white space around, and whose class names
\* the language among other tokens.
C6_Witness ==
    /\ NodeReturned /\ arg.input.kind = "pre"
    /\ arg.input.lang = <<"c", "+", "+">>
    /\ arg.input.text = <<"\n", " ", "*", "a", "_", " ", " ", "b", "\n", "-", "\n", "\n">>
    /\ arg.input.shape = "span"
    /\ ret = ExpectedFence(<<"c", "+", "+">>, <<"*", "a", "_", " ", " ", "b", "\n", "-">>)

\* C7: with escaping enabled (noEscape false, not in code context) a text node
\* whose text begins with '-' is rendered with a backslash before that '-';
\* '- not a list' becomes '\- not a list'; with noEscape true it is rendered
\* as its white-space-normalized text, no backslash added.
C7_LeadingDash ==
    (/\ NodeReturned /\ arg.input.kind = "text"
     /\ ~arg.isCode /\ arg.input.data[1] = "-") =>
        IF arg.noEscape THEN ret = arg.input.norm
        ELSE /\ Len(ret) >= 2 /\ ret[1] = "\\" /\ ret[2] = "-"
             /\ (arg.input.data = <<"-", " ", "n", "o", "t", " ", "a", " ", "l", "i", "s", "t">>
                 => ret = <<"\\", "-", " ", "n", "o", "t", " ", "a", " ",
                            "l", "i", "s", "t">>)

\* The text '- not a list' was rendered with escaping enabled, inside a
\* paragraph.
C7_Witness ==
    /\ NodeReturned /\ arg.input.kind = "text" /\ arg.ctx = "p"
    /\ ~arg.isCode /\ ~arg.noEscape
    /\ arg.input.data = <<"-", " ", "n", "o", "t", " ", "a", " ", "l", "i", "s", "t">>
    /\ ret = <<"\\", "-", " ", "n", "o", "t", " ", "a", " ", "l", "i", "s", "t">>

\* The text nodes below the element under study, as paths of the tree.
TextPathsBelow ==
    LET sub == DescendantPaths(NodeAt(heap.caller, arg.path))
    IN  {arg.path \o sub[k] : k \in {j \in 1..Len(sub) :
            IsTextNode(NodeAt(heap.caller, arg.path \o sub[j]))}}

\* C11: every text node that has a preformatted or inline-code ancestor is
\* rendered raw by processNode, white space and Markdown characters
\* unchanged, whatever noEscape is; the text directly under a pre without
\* code element stands between the fence lines unchanged (trimmed at its
\* ends).
C11_CodeContextRaw ==
    (NodeReturned /\ arg.input.kind = "codetext") =>
        /\ \A q \in TextPathsBelow :
              processNode(heap.caller, q,
                          PassedIsCode(heap.caller, arg.path, q, arg.isCode),
                          arg.noEscape)
                  = NodeAt(heap.caller, q).data
        /\ (arg.input.shape \in {"pre", "prespan"}
               => ret = ExpectedFence(<<>>, arg.input.trimmed))

\* The decimal numerals of 0 .. 19, numeral n at index n + 1.
Numerals ==
    <<<<"0">>, <<"1">>, <<"2">>, <<"3">>, <<"4">>, <<"5">>, <<"6">>, <<"7">>, <<"8">>,
      <<"9">>, <<"1", "0">>, <<"1", "1">>, <<"1", "2">>, <<"1", "3">>, <<"1", "4">>,
      <<"1", "5">>, <<"1", "6">>, <<"1", "7">>, <<"1", "8">>, <<"1", "9">>>>

\* The rendering of a list of ListInputs whose list item at position i gets
\* the number Number(i): "\n", the child nodes one after the other, "\n"; a
\* list item is its marker, its text and a newline unless it is the last
\* child node; nothing at all when no child node has text.
ExpectedList(d, Number(_)) ==
    IF \A i \in 1..Len(d.items) : d.items[i] \in {"blank", "ws"} THEN <<>>
    ELSE <<"\n">>
         \o ConcatMap(Len(d.items), LAMBDA i :
                CASE d.items[i] \in {"li", "lip"} ->
                        (IF d.ordered THEN Numerals[Number(i) + 1] \o <<".", " ">>
                         ELSE <<"-", " ">>)
                        \o (IF d.items[i] = "li" THEN <<"a">> ELSE <<"b">>)
                        \o (IF i < Len(d.items) THEN <<"\n">> ELSE <<>>)
                  [] d.items[i] = "blank" -> <<>>
                  [] d.items[i] = "div" -> <<"d">>
                  [] d.items[i] = "ws" -> IF arg.isCode THEN <<"\n">> ELSE <<" ">>)
         \o <<"\n">>

ContinuationColumn == Len(<<"-", " ">>)

\* The lines of the outer list's rendering between its leading and its
\* trailing newline.
ListLines(out) == SubSeq(Split(out, "\n"), 2, Len(Split(out, "\n")) - 1)

\* Line shows the inner item c with its marker at column col and nothing but
\* spaces between the continuation column and the marker.
InnerItemAt(line, c, col) ==
    /\ Len(line) = col + 3
    /\ SubSeq(line, col + 1, col + 3) = <<"-", " ", c>>
    /\ \A j \in (ContinuationColumn + 1)..col : line[j] = " "

\* C14: rendering an unordered list with one item whose body is an unordered
\* list puts the inner '- ' marker exactly two spaces to the right of the
\* outer item's continuation column, every line of the nested list at the
\* same indentation, the nested list wrapped by single newlines only and no
\* blank line (none empty, none of white space only) inside the parent item.
C14_NestedList ==
    (NodeReturned /\ arg.input.kind = "nested") =>
        /\ StartsWith(ret, <<"\n">>) /\ EndsWith(ret, <<"\n">>)
        /\ \A k \in 1..Len(arg.input.inner) :
              \E l \in 1..Len(ListLines(ret)) :
                  InnerItemAt(ListLines(ret)[l], arg.input.inner[k], ContinuationColumn + 2)
        /\ \A l \in 1..Len(ListLines(ret)) : ~IsBlankString(ListLines(ret)[l])

\* The indentation half of C14 alone, and what stands where the blank line
\* is: the line of two spaces that ends the parent item.
C14_Indentation ==
    (NodeReturned /\ arg.input.kind = "nested") =>
        /\ \A k \in 1..Len(arg.input.inner) :
              \E l \in 1..Len(ListLines(ret)) :
                  InnerItemAt(ListLines(ret)[l], arg.input.inner[k], ContinuationColumn + 2)
        /\ ~Includes(ret, <<"\n", "\n">>)
        /\ \E l \in 1..Len(ListLines(ret)) : ListLines(ret)[l] = <<" ", " ">>

\* The lengths of the runs of backticks in s: n is one when some n
\* backticks in a row have no backtick before and none after them.
BacktickRuns(s) ==
    {n \in 1..Len(s) : \E i \in 1..(Len(s) - n + 1) :
        /\ \A j \in i..(i + n - 1) : s[j] = Backtick
        /\ (i = 1 \/ s[i - 1] # Backtick)
        /\ (i + n - 1 = Len(s) \/ s[i + n] # Backtick)}

\* C15: the span of an inline code element with content is delimiter, content
\* and delimiter, the delimiter being two backticks when the content has a
\* backtick and one otherwise, with one space on each side of the content
\* when it starts or ends with a backtick or a space; and the delimiter is of
\* no length that a run of backticks of the content has, so that the span
\* closes at its final delimiter only.
C15_InlineCode ==
    (NodeReturned /\ arg.input.kind = "inline") =>
        LET content   == arg.input.inline
            delimiter == IF \E i \in 1..Len(content) : content[i] = Backtick
                         THEN <<Backtick, Backtick>> ELSE <<Backtick>>
            pad       == IF \/ content[1] \in {Backtick, " "}
                            \/ content[Len(content)] \in {Backtick, " "}
                         THEN <<" ">> ELSE <<>>
        IN  /\ ret = delimiter \o pad \o content \o pad \o delimiter
            /\ Len(delimiter) \notin BacktickRuns(content)

\* The layout of the span alone: delimiter, padding and content as C15 has
\* them, whatever runs of backticks the content holds.
C15_SpanLayout ==
    (NodeReturned /\ arg.input.kind = "inline") =>
        LET content   == arg.input.inline
            delimiter == IF \E i \in 1..Len(content) : content[i] = Backtick
                         THEN <<Backtick, Backtick>> ELSE <<Backtick>>
            pad       == IF \/ content[1] \in {Backtick, " "}
                            \/ content[Len(content)] \in {Backtick, " "}
                         THEN <<" ">> ELSE <<>>
        IN  ret = delimiter \o pad \o content \o pad \o delimiter

-----------------------------------------------------------------------------
(* The conversions step by step, with the objects they read and write *)

\* Message subtrees: a div.markdown that may hold a copy button (with an svg
\* icon and a label), a script, a paragraph, and a list whose item holds a
\* checkbox and may hold a nested list with a task item of its own.
MessageInputs ==
    {[kind |-> "message", button |-> b, script |-> sc, task |-> t, nested |-> n] :
        b \in BOOLEAN, sc \in BOOLEAN, t \in {"checked", "unchecked"}, n \in BOOLEAN}

MkCheckbox(checked) ==
    Elem("input", IF checked THEN [type |-> CheckboxStr, checked |-> <<>>]
                  ELSE [type |-> CheckboxStr], <<>>)

MkMessage(d) ==
    Elem("div", [class |-> MarkdownClass],
        (IF d.button
         THEN <<El("button", <<El("svg", <<El("path", <<>>)>>), Text(<<"C", "o", "p", "y">>)>>)>>
         ELSE <<>>)
        \o <<El("p", <<Text(<<"h", "i", " ", "*", "\n">>)>>)>>
        \o (IF d.script THEN <<El("script", <<Text(<<"s", "(", ")">>)>>)>> ELSE <<>>)
        \o <<El("ul", <<
               El("li", <<MkCheckbox(d.task = "checked"), Text(DoneStr)>>
                        \o (IF d.nested
                            THEN <<El("ul", <<El("li", <<MkCheckbox(TRUE), Text(<<"x">>)>>)>>)>>
                            ELSE <<>>)),
               El("li", <<Text(<<"y">>)>>) >>)>>)

\* The list items of the tree n that have no list item above them, as paths
\* in document order: the items whose liClone is made of a node of n itself.
OutermostItems(n) ==
    SelectSeq(DescendantPaths(n), LAMBDA p :
        /\ IsTag(NodeAt(n, p), {"li"})
        /\ ~isInsideListItem(n, p))

\* The references held by `const clone` (htmlToMarkdown, extractTextContent)
\* and by `const liClone` (processNode): objects of their own, made by
\* cloneNode(true).
CloneRef_Alias == "caller"

CloneRef == "clone"

LiCloneRef == "liClone"

InitConv ==
    /\ pc = "call"
    /\ \E d \in MessageInputs, ne \in BOOLEAN,
          fn \in {"htmlToMarkdown", "extractTextContent", "processNode"} :
          /\ arg = [fn |-> fn, input |-> d, isCode |-> FALSE, noEscape |-> ne]
          /\ heap = [caller |-> MkMessage(d), clone |-> Null, liClone |-> Null]
    /\ ret = <<>>
    /\ idx = 0
    /\ markdown = <<>>

\* const clone = element.cloneNode(true)
CloneElement ==
    /\ pc = "call"
    /\ arg.fn \in {"htmlToMarkdown", "extractTextContent"}
    /\ heap' = [heap EXCEPT ![CloneRef] = heap.caller]
    /\ pc' = "cloned"
    /\ UNCHANGED <<arg, ret, idx, markdown>>

\* clone.querySelectorAll('script, style, svg, button').forEach(el => el.remove())
StripClone ==
    /\ pc = "cloned"
    /\ heap' = [heap EXCEPT ![CloneRef] = RemoveUnwanted(heap[CloneRef])]
    /\ pc' = "stripped"
    /\ UNCHANGED <<arg, ret, idx, markdown>>

\* return processNode(clone, options).trim()
ConvertClone ==
    /\ pc = "stripped"
    /\ arg.fn = "htmlToMarkdown"
    /\ ret' = Trim(processNode(heap[CloneRef], <<>>, FALSE, arg.noEscape))
    /\ pc' = "done"
    /\ UNCHANGED <<heap, arg, idx, markdown>>

\* let text = clone.textContent ?? ''; ...; return text
ExtractText ==
    /\ pc = "stripped"
    /\ arg.fn = "extractTextContent"
    /\ ret' = CleanText(heap[CloneRef])
    /\ pc' = "done"
    /\ UNCHANGED <<heap, arg, idx, markdown>>

\* processNode on the caller's tree, at a list item that is a node of that
\* tree: const liClone = node.cloneNode(true)
CloneListItem ==
    /\ pc = "call"
    /\ arg.fn = "processNode"
    /\ idx < Len(OutermostItems(heap.caller))
    /\ heap' = [heap EXCEPT ![LiCloneRef] = NodeAt(heap.caller, OutermostItems(heap.caller)[idx + 1])]
    /\ pc' = "liCloned"
    /\ UNCHANGED <<arg, ret, idx, markdown>>

\* liClone.querySelector('input[type="checkbox"]')?.remove()
RemoveCheckbox ==
    /\ pc = "liCloned"
    /\ heap' = [heap EXCEPT ![LiCloneRef] = ListItemClone(heap[LiCloneRef])]
    /\ idx' = idx + 1
    /\ pc' = "call"
    /\ UNCHANGED <<arg, ret, markdown>>

\* processNode on the caller's tree returns, its list items done.
ReturnProcessNode ==
    /\ pc = "call"
    /\ arg.fn = "processNode"
    /\ idx = Len(OutermostItems(heap.caller))
    /\ ret' = processNode(heap.caller, <<>>, arg.isCode, arg.noEscape)
    /\ pc' = "done"
    /\ UNCHANGED <<heap, arg, idx, markdown>>

NextConv ==
    \/ CloneElement
    \/ StripClone
    \/ ConvertClone
    \/ ExtractText
    \/ CloneListItem
    \/ RemoveCheckbox
    \/ ReturnProcessNode

SpecConv == InitConv /\ [][NextConv]_vars

\* C8: no conversion changes the caller's tree: in every state of
\* htmlToMarkdown, extractTextContent and processNode the tree passed in is
\* the tree it was before the call, checkbox and script/style/svg/button
\* elements included; the removals are made on the clones.
C8_CallerTreeUnchanged ==
    /\ heap.caller = MkMessage(arg.input)
    /\ (pc = "stripped" => ~HasMatch(heap[CloneRef], IsUnwanted))
    /\ (pc = "call" /\ idx > 0 =>
           LET item == NodeAt(heap.caller, OutermostItems(heap.caller)[idx])
           IN  IF HasMatch(item, IsCheckbox)
               THEN Len(QuerySelectorAll(heap[LiCloneRef], IsCheckbox)) + 1
                        = Len(QuerySelectorAll(item, IsCheckbox))
               ELSE heap[LiCloneRef] = item)

\* htmlToMarkdown returned for a tree with a button, a script and a checkbox:
\* the clone has lost the button and the script, the caller's tree has not.
C8_Witness ==
    /\ pc = "done" /\ arg.fn = "htmlToMarkdown"
    /\ arg.input.button /\ arg.input.script
    /\ HasMatch(heap.caller, IsUnwanted) /\ HasMatch(heap.caller, IsCheckbox)
    /\ ~HasMatch(heap.clone, IsUnwanted)
    /\ ret # <<>>

-----------------------------------------------------------------------------
(* The page exportChatToMarkdown runs on *)

\* Bound of the conversations: the most articles of a page.
MaxTurns == 3

ToolRole == <<"t", "o", "o", "l">>

\* The articles of a page, each with what the export is to take from it:
\* hasMessage, the role and the content (written out by hand).
TurnPool ==
    {[shape |-> "user", turn |-> TRUE, hasMessage |-> TRUE, role |-> UserRole,
      heading |-> <<"#", "#", " ", "U", "s", "e", "r">>,
      content |-> <<"h", "i", " ", "t", "h", "e", "r", "e", "\n", "\n", "b", "y", "e">>],
     [shape |-> "userBlank", turn |-> TRUE, hasMessage |-> TRUE, role |-> UserRole,
      heading |-> <<"#", "#", " ", "U", "s", "e", "r">>,
      content |-> <<>>],
     [shape |-> "assistant", turn |-> TRUE, hasMessage |-> TRUE, role |-> AssistantRole,
      heading |-> <<"#", "#", " ", "A", "s", "s", "i", "s", "t", "a", "n", "t">>,
      content |-> <<"H", "i", " ", "*", "y", "o", "u", "*">>],
     [shape |-> "assistantEmpty", turn |-> TRUE, hasMessage |-> TRUE, role |-> AssistantRole,
      heading |-> <<"#", "#", " ", "A", "s", "s", "i", "s", "t", "a", "n", "t">>,
      content |-> <<>>],
     [shape |-> "tool", turn |-> TRUE, hasMessage |-> TRUE, role |-> ToolRole,
      heading |-> <<"#", "#", " ", "t", "o", "o", "l">>,
      content |-> <<"r", "a", "n">>],
     [shape |-> "noMessage", turn |-> TRUE, hasMessage |-> FALSE, role |-> <<>>,
      heading |-> <<>>,
      content |-> <<>>],
     [shape |-> "foreign", turn |-> FALSE, hasMessage |-> TRUE, role |-> UserRole,
      heading |-> <<"#", "#", " ", "U", "s", "e", "r">>,
      content |-> <<"n", "o">>]}

CopyButton == El("button", <<Text(<<"C", "o", "p", "y">>)>>)

MkMessageDiv(role, children) ==
    Elem("div", Attrs(<< <<"data-message-author-role", role>> >>), children)

\* The article of a pool entry, as the i-th article of the page.
MkTurn(d, i) ==
    Elem("article",
         Attrs(<< <<"data-testid",
                    IF d.turn THEN TurnTestIdPrefix \o <<"-", DigitChars[i + 1]>>
                    ELSE <<"o", "t", "h", "e", "r">> >> >>),
         CASE d.shape = "user" ->
                <<MkMessageDiv(UserRole, <<
                    Elem("div", [class |-> PreWrapClass],
                         <<Text(<<"h", "i", " ", "\t", "t", "h", "e", "r", "e", " ", "\n",
                                  "\n", " ", "\n", "\n", "b", "y", "e", " ">>)>>),
                    El("span", <<Text(<<"E", "d", "i", "t">>)>>) >>)>>
           [] d.shape = "userBlank" ->
                <<MkMessageDiv(UserRole, <<Text(<<" ", "\n">>), CopyButton>>)>>
           [] d.shape = "assistant" ->
                <<El("div", <<MkMessageDiv(AssistantRole, <<
                    Elem("div", [class |-> MarkdownClass \o <<" ", "p", "r", "o", "s", "e">>],
                         <<El("p", <<Text(<<"H", "i", "\n", " ">>),
                                     El("em", <<Text(<<"y", "o", "u">>)>>)>>),
                           CopyButton>>),
                    El("span", <<Text(<<"m", "o", "r", "e">>)>>) >>)>>)>>
           [] d.shape = "assistantEmpty" ->
                <<MkMessageDiv(AssistantRole, <<CopyButton, El("div", <<>>)>>)>>
           [] d.shape = "tool" ->
                <<MkMessageDiv(ToolRole, <<El("div", <<Text(<<"r", "a", "n", "\n">>)>>)>>)>>
           [] d.shape = "noMessage" ->
                <<El("div", <<Text(<<".", ".", ".">>)>>)>>
           [] d.shape = "foreign" ->
                <<MkMessageDiv(UserRole, <<Text(<<"n", "o">>)>>)>>)

\* The page: a head with or without a title element, a body with the articles.
MkDocument(title, turns) ==
    El("html", <<
        El("head", IF title = Absent THEN <<>> ELSE <<El("title", <<Text(title)>>)>>),
        El("body", <<El("main", [i \in 1..Len(turns) |-> MkTurn(turns[i], i)])>>) >>)

\* The titles of a page, each with the title the export is to show and the
\* part of the file name it is to give (written out by hand).
PageTitles ==
    {[text |-> Absent,
      shown |-> <<"C", "h", "a", "t", "G", "P", "T", " ",
                  "C", "o", "n", "v", "e", "r", "s", "a", "t", "i", "o", "n">>,
      safe |-> <<"C", "h", "a", "t", "G", "P", "T", "_",
                 "C", "o", "n", "v", "e", "r", "s", "a", "t", "i", "o", "n">>],
     [text |-> <<"M", "y", " ", "c", "h", "a", "t", " ", "|", " ",
                 "C", "h", "a", "t", "G", "P", "T">>,
      shown |-> <<"M", "y", " ", "c", "h", "a", "t">>,
      safe |-> <<"M", "y", "_", "c", "h", "a", "t">>],
     [text |-> <<"a", "/", "b", ":", " ", "7">>,
      shown |-> <<"a", "/", "b", ":", " ", "7">>,
      safe |-> <<"a", "_", "b", "_", "7">>]}

\* A locale time and a clock value: new Date().toLocaleString(), Date.now().
LocaleTime == <<"1", "1", "/", "1", "/", "2", "0", "2", "6">>
ClockValues == {1730457000, 2147483647}

InitExport ==
    /\ pc = "start"
    /\ \E t \in PageTitles, turns \in RowSeqs(TurnPool, MaxTurns), now \in {1730457000} :
          /\ arg = [fn |-> "exportChatToMarkdown", title |-> t, turns |-> turns,
                    localeTime |-> LocaleTime, now |-> now]
          /\ heap = [caller |-> MkDocument(t.text, turns)]
    /\ ret = <<>>
    /\ idx = 0
    /\ markdown = <<>>

\* if (turns.length === 0) return;
ExportNoTurns ==
    /\ pc = "start"
    /\ Len(Turns(heap.caller)) = 0
    /\ pc' = "returned"
    /\ UNCHANGED <<heap, arg, ret, idx, markdown>>

\* let markdown = `# ${conversationTitle}\n\n`; ... markdown += `---\n\n`;
ExportBegin ==
    /\ pc = "start"
    /\ Len(Turns(heap.caller)) > 0
    /\ markdown' = Preamble(ConversationTitle(heap.caller), arg.localeTime)
    /\ pc' = "turns"
    /\ UNCHANGED <<heap, arg, ret, idx>>

\* One run of the callback of turns.forEach.
ProcessTurn ==
    /\ pc = "turns"
    /\ idx < Len(Turns(heap.caller))
    /\ markdown' = markdown \o TurnOutput(Turns(heap.caller)[idx + 1])
    /\ idx' = idx + 1
    /\ UNCHANGED <<pc, heap, arg, ret>>

\* markdown = cleanupMarkdown(markdown); ...; link.download = filename; ...
ExportFinish ==
    /\ pc = "turns"
    /\ idx = Len(Turns(heap.caller))
    /\ markdown' = cleanupMarkdown(markdown)
    /\ ret' = Filename(ConversationTitle(heap.caller), arg.now)
    /\ pc' = "downloaded"
    /\ UNCHANGED <<heap, arg, idx>>

NextExport == ExportNoTurns \/ ExportBegin \/ ProcessTurn \/ ExportFinish

SpecExport == InitExport /\ [][NextExport]_vars

-----------------------------------------------------------------------------
(* The document during the loop over the turns *)

\* The turns of the page in document order: the articles the selector takes.
PageTurns == SelectSeq(arg.turns, LAMBDA d : d.turn)

\* What a turn is to add to the document.
ExpectedSection(d) ==
    IF d.hasMessage /\ d.content # <<>>
    THEN d.heading \o <<"\n">> \o d.content \o <<"\n", "-", "-", "-", "\n", "\n">>
    ELSE <<>>

ExpectedPreamble ==
    <<"#", " ">> \o arg.title.shown \o <<"\n", "\n">>
    \o <<"*", "E", "x", "p", "o", "r", "t", "e", "d", " ", "o", "n", " ">> \o arg.localeTime
    \o <<"*", "\n", "\n", "-", "-", "-", "\n", "\n">>

ExpectedDocument(n) ==
    ExpectedPreamble \o ConcatMap(n, LAMBDA j : ExpectedSection(PageTurns[j]))

\* C9: exportChatToMarkdown takes the turns in document order and, after any
\* number of turns processed, the document is the preamble followed, for each
\* processed turn that has a message container and non-empty content and in
\* the order of the turns, by one role heading, the turn's content and a
\* '---' line; a turn without a message container or with empty content adds
\* nothing.
C9_TurnSections ==
    pc = "turns" =>
        /\ idx <= Len(PageTurns)
        /\ markdown = ExpectedDocument(idx)

\* Three turns processed, the second of which adds nothing.
C9_Witness ==
    /\ pc = "turns"
    /\ idx = 3
    /\ PageTurns[1].content # <<>>
    /\ PageTurns[2].content = <<>>
    /\ PageTurns[3].content # <<>>
    /\ PageTurns[1].role # PageTurns[3].role
    /\ markdown = ExpectedPreamble \o ExpectedSection(PageTurns[1])
                      \o ExpectedSection(PageTurns[3])

-----------------------------------------------------------------------------
(* The file name of the download *)

\* Bound of the titles: the most runs of one character a title is made of.
MaxRuns == 3

\* A run is a character and how often it is repeated; a run of 26 lets two
\* runs pass the 50 characters of the file name's title part.
RunPool == {[ch |-> c, n |-> n] : c \in {"a", "Z", " ", "_"}, n \in {1, 26}}

RECURSIVE RunsText(_)
RunsText(runs) ==
    IF runs = <<>> THEN <<>>
    ELSE Repeat(Head(runs).ch, Head(runs).n) \o RunsText(Tail(runs))

\* The title part expected of a title made of runs, before it is cut: a run
\* of letters stays, runs of other characters next to each other give one
\* underscore.
RECURSIVE RunsSafe(_, _)
RunsSafe(runs, afterOther) ==
    IF runs = <<>> THEN <<>>
    ELSE IF Head(runs).ch \in {"a", "Z"}
         THEN Repeat(Head(runs).ch, Head(runs).n) \o RunsSafe(Tail(runs), FALSE)
         ELSE (IF afterOther THEN <<>> ELSE <<"_">>) \o RunsSafe(Tail(runs), TRUE)

FileTitles ==
    {[text |-> RunsText(runs), shown |-> RunsText(runs),
      safe |-> SubSeq(RunsSafe(runs, FALSE), 1,
                      IF Len(RunsSafe(runs, FALSE)) < 50
                      THEN Len(RunsSafe(runs, FALSE)) ELSE 50)]
        : runs \in RowSeqs(RunPool, MaxRuns) \ {<<>>}}
    \cup
    {[text |-> <<>>, shown |-> <<>>, safe |-> <<>>],
     [text |-> <<"U+00E9", "7", "!", "?", "x", "\n">>,
      shown |-> <<"U+00E9", "7", "!", "?", "x", "\n">>,
      safe |-> <<"_", "7", "_", "x", "_">>]}
    \cup PageTitles

ToolTurn == CHOOSE d \in TurnPool : d.shape = "tool"

InitFile ==
    /\ pc = "start"
    /\ \E t \in FileTitles, now \in ClockValues :
          \E turns \in IF t.text = Absent THEN {<<>>, <<ToolTurn>>} ELSE {<<ToolTurn>>} :
              /\ arg = [fn |-> "exportChatToMarkdown", title |-> t, turns |-> turns,
                        localeTime |-> LocaleTime, now |-> now]
              /\ heap = [caller |-> MkDocument(t.text, turns)]
    /\ ret = <<>>
    /\ idx = 0
    /\ markdown = <<>>

SpecFile == InitFile /\ [][NextExport]_vars

FilePrefix == <<"c", "h", "a", "t", "g", "p", "t", "_">>
FileSuffix == <<".", "m", "d">>

\* The digits of the clock values.
ClockText ==
    IF arg.now = 1730457000
    THEN <<"1", "7", "3", "0", "4", "5", "7", "0", "0", "0">>
    ELSE <<"2", "1", "4", "7", "4", "8", "3", "6", "4", "7">>

\* The part of the file name between 'chatgpt_' and '_' + timestamp + '.md'.
FileTitlePart ==
    SubSeq(ret, Len(FilePrefix) + 1, Len(ret) - Len(FileSuffix) - Len(ClockText) - 1)

\* C10: the download's file name is 'chatgpt_' + S + '_' + timestamp + '.md',
\* where S is the title with every character outside [A-Za-z0-9] replaced
\* by '_': S has only letters, digits and underscores, no two underscores in
\* a row, and at most 50 characters.
C10_Filename ==
    pc = "downloaded" =>
        /\ ret = FilePrefix \o FileTitlePart \o <<"_">> \o ClockText \o FileSuffix
        /\ FileTitlePart = arg.title.safe
        /\ \A i \in 1..Len(FileTitlePart) :
              /\ FileTitlePart[i] \in AlnumChars \cup {"_"}
              /\ (i > 1 /\ FileTitlePart[i] = "_" => FileTitlePart[i - 1] # "_")
        /\ Len(FileTitlePart) <= 50

\* A title of more than 50 characters with several characters in a row that
\* are neither letters nor digits, whose title part is cut at 50.
C10_Witness ==
    /\ pc = "downloaded"
    /\ arg.title.text # Absent
    /\ Len(arg.title.text) > 50
    /\ \E i \in 2..Len(arg.title.text) :
          /\ arg.title.text[i] \notin AlnumChars
          /\ arg.title.text[i - 1] \notin AlnumChars
          /\ i < 50
    /\ Len(FileTitlePart) = 50
    /\ \E i \in 1..50 : FileTitlePart[i] = "_"

=============================================================================
